---------------------------- MODULE Spec2Model ----------------------------
(***************************************************************************)
(* ShortsBot backend (src/server.js): the OAuth token lifecycle and the    *)
(* video-draft state machine over the persisted document data.json.        *)
(*                                                                         *)
(* Every request handler is an async function.  Node runs one handler      *)
(* segment at a time; a handler gives up control only where it awaits an   *)
(* external HTTP call.  An action below is one such segment: from the      *)
(* arrival of a request, or of the answer to an external call, up to the   *)
(* next external call or to the response.  loadDB() yields a private copy  *)
(* of the document, saveDB(db) replaces the whole persisted document.      *)
(*                                                                         *)
(* Absent values (null / undefined) are None == <<>>, present ones <<v>>.  *)
(* Time is Date.now() in milliseconds.                                     *)
(***************************************************************************)
EXTENDS Integers, Sequences, FiniteSets, TLC

VARIABLES
    disk,     \* data.json: [videos, tokens, channel]
    cfg,      \* config.json: [clientId, clientSecret, claudeApiKey]
    now,      \* Date.now()
    reqs,     \* the requests: position and locals of each handler
    started,  \* number of requests received so far
    cur,      \* request whose continuation is queued in this turn, or 0
    resp,     \* the last response sent: [status, error]
    listed    \* the draft list in the last answer of GET /api/videos

vars == <<disk, cfg, now, reqs, started, cur, resp, listed>>

-----------------------------------------------------------------------------
(* Bounds of the exploration *)

MaxRequests == 2      \* requests received in one run
MaxTicks == 1         \* clock advances in one run
Prefill == 49         \* drafts already stored at start under SpecStore

(* Program constants *)

MaxVideos == 50       \* retention of the draft list
BufferMs == 60000     \* refresh buffer of getValidToken

None == <<>>
Some(v) == <<v>>
Val(o) == o[1]

StartTimes == {120000}
ClockSteps == {60000}
Horizon == 120000 + MaxTicks * 60000

Reqs == 1..MaxRequests

(* What the outside world may send *)
AccessTokens == {"at2"}                \* tokens the provider issues
RefreshTokens == {"rt2"}
ExpiresIn == {30, 120}                 \* seconds, as the provider reports
ProviderErrors == {"invalid_grant"}
TransportErrors == {"ECONNRESET"}
Topics == {<<"X">>}                    \* a topic is its words, split at blanks
ChannelItems ==                        \* items[0] of the platform's channel list
    {[id |-> "UC1", title |-> "Chan", customUrl |-> None, thumbnail |-> Some("t.png"),
      subscriberCount |-> "10", viewCount |-> "100", videoCount |-> "3"]}

-----------------------------------------------------------------------------
(* The persisted document: loadDB / saveDB *)

EmptyDB == [videos |-> <<>>, tokens |-> None, channel |-> None]

\* loadDB() yields a copy of the document (EmptyDB while there is no file) and
\* saveDB(db) replaces the document by db: `disk` is the document itself, a
\* handler's `db` a value read from it earlier.

\* Variant: the last draft is taken when none has the id.
FindVideoOrLast(videos, id) ==
    IF \E i \in 1..Len(videos) : videos[i].id = id
    THEN CHOOSE i \in 1..Len(videos) :
             /\ videos[i].id = id
             /\ \A j \in 1..(i - 1) : videos[j].id # id
    ELSE Len(videos)

\* Array.prototype.find on db.videos: index of the first draft with this id, 0 if none.
FindVideo(videos, id) ==
    IF \E i \in 1..Len(videos) : videos[i].id = id
    THEN CHOOSE i \in 1..Len(videos) :
             /\ videos[i].id = id
             /\ \A j \in 1..(i - 1) : videos[j].id # id
    ELSE 0

-----------------------------------------------------------------------------
(* Token Manager: getValidToken *)

\* db.tokens.expiry || 0
ExpiryOrZero(e) == IF e = None THEN 0 ELSE Val(e)

\* Variant: the token counts as valid up to its expiry, without the buffer.
StillValidNoBuffer(tokens, t) == t < ExpiryOrZero(tokens.expiry)

\* Date.now() < expiry - 60000
StillValid(tokens, t) == t < ExpiryOrZero(tokens.expiry) - BufferMs

\* Variant: no check that a token record exists; the refresh is attempted.
getValidTokenBeginNoCheck(db, t) ==
    IF db.tokens = None
    THEN [k |-> "refresh", val |-> ""]
    ELSE IF StillValid(Val(db.tokens), t)
         THEN [k |-> "return", val |-> Val(db.tokens).access_token]
         ELSE [k |-> "refresh", val |-> Val(db.tokens).refresh_token]

\* getValidToken up to its first await: throws, returns the stored token, or
\* sends the refresh request.
getValidTokenBegin(db, t) ==
    IF db.tokens = None
    THEN [k |-> "throw", val |-> "Not authenticated"]
    ELSE IF StillValid(Val(db.tokens), t)
         THEN [k |-> "return", val |-> Val(db.tokens).access_token]
         ELSE [k |-> "refresh", val |-> Val(db.tokens).refresh_token]

\* The provider's answers to a refresh or a code exchange, and a failed transport.
TokenAnswers ==
    [k : {"ok"}, access_token : AccessTokens, refresh_token : RefreshTokens,
     expires_in : ExpiresIn, error : {""}]
    \cup [k : {"error"}, access_token : {""}, refresh_token : {""},
          expires_in : {0}, error : ProviderErrors]
    \cup [k : {"reject"}, access_token : {""}, refresh_token : {""},
          expires_in : {0}, error : TransportErrors]

\* Variant: the new expiry is expires_in alone, not counted from the clock.
getValidTokenResumeNoClock(db, a, t) ==
    IF a.k = "reject"
    THEN [k |-> "throw", val |-> a.error, saved |-> None]
    ELSE IF a.k = "error"
    THEN [k |-> "throw", val |-> "Token refresh failed: " \o a.error, saved |-> None]
    ELSE LET tok == [Val(db.tokens) EXCEPT
                        !.access_token = a.access_token,
                        !.expiry = Some(a.expires_in * 1000)]
             db2 == [db EXCEPT !.tokens = Some(tok)]
         IN [k |-> "return", val |-> a.access_token, saved |-> Some(db2)]

\* Variant: the answer is stored and saved before it is checked for an error.
getValidTokenResumeStoreFirst(db, a, t) ==
    LET tok == [Val(db.tokens) EXCEPT
                   !.access_token = a.access_token,
                   !.expiry = Some(t + a.expires_in * 1000)]
        db2 == [db EXCEPT !.tokens = Some(tok)]
    IN IF a.k = "reject"
       THEN [k |-> "throw", val |-> a.error, saved |-> None]
       ELSE IF a.k = "error"
       THEN [k |-> "throw", val |-> "Token refresh failed: " \o a.error,
             saved |-> Some(db2)]
       ELSE [k |-> "return", val |-> a.access_token, saved |-> Some(db2)]

\* getValidToken after the refresh answer `a` arrived at time t, for its copy db:
\* the outcome, and the document it saved (None when it saved nothing).
getValidTokenResume(db, a, t) ==
    IF a.k = "reject"
    THEN [k |-> "throw", val |-> a.error, saved |-> None]
    ELSE IF a.k = "error"
    THEN [k |-> "throw", val |-> "Token refresh failed: " \o a.error, saved |-> None]
    ELSE LET tok == [Val(db.tokens) EXCEPT
                        !.access_token = a.access_token,
                        !.expiry = Some(t + a.expires_in * 1000)]
             db2 == [db EXCEPT !.tokens = Some(tok)]
         IN [k |-> "return", val |-> a.access_token, saved |-> Some(db2)]

-----------------------------------------------------------------------------
(* Channel Info Fetcher: getChannelInfo *)

\* What the platform may answer: a channel list (possibly empty), or a failure.
ChannelAnswers ==
    [k : {"items"}, items : {<<>>} \cup {<<c>> : c \in ChannelItems}]
    \cup [k : {"reject"}, items : {<<>>}]

\* getChannelInfo after the answer arrived: the channel record, or null.
getChannelInfo(a) ==
    IF Len(a.items) > 0
    THEN LET ch == a.items[1] IN
         Some([id |-> ch.id,
               title |-> ch.title,
               handle |-> IF ch.customUrl # None THEN Val(ch.customUrl)
                          ELSE "@" \o ch.title,
               thumbnail |-> ch.thumbnail,
               subscribers |-> ch.subscriberCount,
               views |-> ch.viewCount,
               videoCount |-> ch.videoCount])
    ELSE None

-----------------------------------------------------------------------------
(* Script Generator: generateScript, parseGeneratedScript, localGenerate *)

RECURSIVE Join(_, _)
\* words.join(sep)
Join(words, sep) ==
    IF Len(words) = 0 THEN ""
    ELSE IF Len(words) = 1 THEN words[1]
    ELSE words[1] \o sep \o Join(Tail(words), sep)

\* String.prototype.toLowerCase on the words that occur
Lower(w) == CASE w = "X" -> "x" [] OTHER -> w

RECURSIVE Squash(_)
\* topic.replace(/\s+/g,'').toLowerCase()
Squash(words) ==
    IF Len(words) = 0 THEN "" ELSE Lower(words[1]) \o Squash(Tail(words))

\* words.slice(0, n)
Slice(words, n) == SubSeq(words, 1, IF Len(words) < n THEN Len(words) ELSE n)

\* The draws of Math.random() the exploration takes: indices into hooks and titles.
HookDraws == {3}
TitleDraws == {0}

\* localGenerate(topic, tone, length), with its two random draws given.
localGenerate(topic, hookDraw, titleDraw) ==
    LET t == Join(topic, " ")
        hooks == <<
          "Nobody talks about this but it's the #1 thing you need to know about " \o t \o ".",
          "Stop scrolling - this " \o t \o " tip will change how you think.",
          "I tried " \o t \o " for 30 days. Here's what actually happened.",
          "The truth about " \o t \o " that nobody tells you.",
          "If you care about " \o t \o ", watch this right now." >>
        hook == hooks[hookDraw + 1]
        script == hook \o "\n\nHere's what I discovered:\n\nFirst - most people approach "
                  \o t \o " completely wrong. They focus on the wrong things and wonder"
                  \o " why they're not seeing results.\n\nSecond - the secret is"
                  \o " consistency. Not perfection. Not talent. Just showing up every single"
                  \o " day and doing the work.\n\nThird - track your progress. What gets"
                  \o " measured gets improved. Start small, stay consistent, and the results"
                  \o " will come.\n\nThe bottom line? " \o t
                  \o " is simpler than you think. Most people overcomplicate it."
                  \o "\n\nSave this video and share it with someone who needs to hear this."
                  \o " And follow for more tips like this every day."
        titleWords == Join(Slice(topic, 4), " ")
        titles == <<
          "The Truth About " \o titleWords,
          titleWords \o ": What Nobody Tells You",
          "I Tried " \o titleWords \o " For 30 Days",
          "Stop Making This " \o titleWords \o " Mistake" >>
    IN [title |-> titles[titleDraw + 1],
        hook |-> hook,
        script |-> script,
        hashtags |-> "#" \o Squash(topic) \o " #shorts #viral #trending #fyp"]

\* A generated text, by the labelled parts the four patterns find in it (trimmed;
\* None where a pattern does not match).
Texts ==
    {[raw |-> "TITLE: T1 HOOK: H1 SCRIPT: S1 HASHTAGS: #a #b",
      title |-> Some("T1"), hook |-> Some("H1"), script |-> Some("S1"),
      hashtags |-> Some("#a #b")],
     [raw |-> "SCRIPT: S2", title |-> None, hook |-> None, script |-> Some("S2"),
      hashtags |-> None]}

\* match?.[1]?.trim() || fallback
OrElse(m, fallback) == IF m = None \/ m = Some("") THEN fallback ELSE Val(m)

\* parseGeneratedScript(text, topic)
parseGeneratedScript(text, topic) ==
    [title |-> OrElse(text.title, Join(topic, " ")),
     hook |-> OrElse(text.hook, ""),
     script |-> OrElse(text.script, text.raw),
     hashtags |-> OrElse(text.hashtags, "#shorts #viral #trending")]

\* The generation API's answers: a failed transport, a body that is not JSON (read
\* as {}), a body without content[0].text, or a text.
ApiAnswers ==
    [k : {"reject", "nojson", "notext"}, text : {None}]
    \cup [k : {"text"}, text : {Some(x) : x \in Texts}]

\* Variant: every answer of the API is parsed, an answer without text as an empty text.
generateScriptParseAlways(topic, a, hookDraw, titleDraw) ==
    IF a # None
    THEN parseGeneratedScript(
             IF Val(a).k = "text" THEN Val(Val(a).text)
             ELSE [title |-> None, hook |-> None, script |-> None,
                   hashtags |-> None, raw |-> ""],
             topic)
    ELSE localGenerate(topic, hookDraw, titleDraw)

\* generateScript after the API answered (or without a key: a == None).
generateScript(topic, a, hookDraw, titleDraw) ==
    IF a # None /\ Val(a).k = "text"
    THEN parseGeneratedScript(Val(Val(a).text), topic)
    ELSE localGenerate(topic, hookDraw, titleDraw)

-----------------------------------------------------------------------------
(* Video Draft Store: the /api/generate insert and the DELETE route *)

\* The draft the /api/generate route builds at time t.  (Its randomly drawn emoji
\* is left out; the id is the clock reading as a decimal string.)
NewVideo(body, generated, t) ==
    [id |-> ToString(t),
     topic |-> Join(body.topic, " "),
     tone |-> body.tone,
     length |-> body.length,
     title |-> generated.title,
     hook |-> generated.hook,
     script |-> generated.script,
     hashtags |-> generated.hashtags,
     status |-> "draft",
     createdAt |-> t,
     scheduledFor |-> body.scheduleFor,
     scheduledAt |-> None,
     youtubeMetadata |-> None,
     error |-> None]

\* Variant: the truncation keeps the last 50 entries, dropping the new one.
InsertVideoKeepLast(videos, video) ==
    LET all == <<video>> \o videos
    IN IF Len(all) > MaxVideos THEN SubSeq(all, 2, MaxVideos + 1) ELSE all

\* db.videos.unshift(video); if (db.videos.length > 50) db.videos = db.videos.slice(0, 50)
InsertVideo(videos, video) ==
    LET all == <<video>> \o videos
    IN IF Len(all) > MaxVideos THEN SubSeq(all, 1, MaxVideos) ELSE all

RECURSIVE RemoveVideo(_, _)
\* db.videos.filter(v => v.id !== id)
RemoveVideo(videos, id) ==
    IF Len(videos) = 0 THEN <<>>
    ELSE IF Head(videos).id = id THEN RemoveVideo(Tail(videos), id)
    ELSE <<Head(videos)>> \o RemoveVideo(Tail(videos), id)

-----------------------------------------------------------------------------
(* Scheduler: scheduleVideoPost *)

\* Variant: the description is the hashtags and the marker, without the script.
MarkScheduledNoScript(video, t) ==
    [video EXCEPT
        !.status = "scheduled",
        !.scheduledAt = Some(t),
        !.youtubeMetadata = Some(
            [title |-> video.title,
             description |-> video.hashtags \o "\n\n#Shorts",
             categoryId |-> "22",
             privacyStatus |-> "public"])]

\* The body of the try block once a token was obtained, at time t.  (The tags of
\* youtubeMetadata, the hashtags split at '#', are left out: nothing here reads them.)
MarkScheduled(video, t) ==
    [video EXCEPT
        !.status = "scheduled",
        !.scheduledAt = Some(t),
        !.youtubeMetadata = Some(
            [title |-> video.title,
             description |-> video.script \o "\n\n" \o video.hashtags \o "\n\n#Shorts",
             categoryId |-> "22",
             privacyStatus |-> "public"])]

\* The catch block: getValidToken threw an error with this message.
MarkError(video, message) ==
    [video EXCEPT !.status = "error", !.error = Some(message)]

\* Variant: only a draft in status draft is scheduled.
scheduleSettleDraftOnly(db, id, outcome, t) ==
    LET i == FindVideo(db.videos, id) IN
    IF outcome.k = "return"
    THEN IF db.videos[i].status = "draft"
         THEN [db EXCEPT !.videos[i] = MarkScheduled(db.videos[i], t)]
         ELSE db
    ELSE [db EXCEPT !.videos[i] = MarkError(db.videos[i], outcome.val)]

\* scheduleVideoPost from the outcome of getValidToken on: its copy db of the
\* document, with the draft mutated in place, which it then saves.
scheduleSettle(db, id, outcome, t) ==
    LET i == FindVideo(db.videos, id) IN
    IF outcome.k = "return"
    THEN [db EXCEPT !.videos[i] = MarkScheduled(db.videos[i], t)]
    ELSE [db EXCEPT !.videos[i] = MarkError(db.videos[i], outcome.val)]

-----------------------------------------------------------------------------
(* Requests *)

NoOutcome == [k |-> "", val |-> ""]
NoBody == [topic |-> <<>>, tone |-> "", length |-> 0, scheduleFor |-> None]

\* A request with no locals: not yet received ("new") or answered ("done").
\* db is the copy of the document the handler loaded; getValidToken called from it
\* loads its own copy in the same turn, so that copy starts as the same value.
Blank(pc) == [pc |-> pc, id |-> "", db |-> EmptyDB, got |-> NoOutcome, body |-> NoBody]

Respond(r, status, error) ==
    resp' = [status |-> status, error |-> error]

\* Request r arrives: the next one in order, while no continuation is queued.
Arrives(r) == /\ cur = 0
              /\ r = started + 1
              /\ reqs[r].pc = "new"
              /\ started' = r

\* The answer to r's external call arrives while r waits at pc.
Answered(r, pc) == cur = 0 /\ reqs[r].pc = pc

Finish(r) == reqs' = [reqs EXCEPT ![r] = Blank("done")]

\* Ids a request may name: the newest and the oldest stored draft, and an unknown one.
IdInputs ==
    {"missing"} \cup
    (IF Len(disk.videos) = 0 THEN {}
     ELSE {disk.videos[1].id, disk.videos[Len(disk.videos)].id})

SetupBodies ==
    {[clientId |-> Some("cid"), clientSecret |-> Some("sec"), claudeApiKey |-> Some(" key ")]}

\* String.prototype.trim on the values that occur
Trim(v) == CASE v = " key " -> "key" [] OTHER -> v

GenerateBodies ==
    [topic : Topics \cup {<<>>}, tone : {"Engaging"}, length : {60}, scheduleFor : {None}]

-----------------------------------------------------------------------------
(* Time *)

Tick(d) ==
    /\ cur = 0
    /\ now + d <= Horizon
    /\ now' = now + d
    /\ UNCHANGED <<disk, cfg, reqs, started, cur, resp, listed>>

-----------------------------------------------------------------------------
(* Routes without an external call *)

\* GET /api/status
Status(r) ==
    /\ Arrives(r)
    /\ Finish(r)
    /\ Respond(r, 200, "")
    /\ UNCHANGED <<disk, cfg, now, cur, listed>>

\* POST /api/setup
Setup(r, body) ==
    /\ Arrives(r)
    /\ cfg' = [clientId |-> IF body.clientId # None /\ body.clientId # Some("")
                            THEN Some(Trim(Val(body.clientId))) ELSE cfg.clientId,
                clientSecret |-> IF body.clientSecret # None /\ body.clientSecret # Some("")
                                THEN Some(Trim(Val(body.clientSecret))) ELSE cfg.clientSecret,
                claudeApiKey |-> IF body.claudeApiKey # None /\ body.claudeApiKey # Some("")
                                THEN Some(Trim(Val(body.claudeApiKey))) ELSE cfg.claudeApiKey]
    /\ Finish(r)
    /\ Respond(r, 200, "")
    /\ UNCHANGED <<disk, now, cur, listed>>

\* GET /auth/connect
AuthConnect(r) ==
    /\ Arrives(r)
    /\ Finish(r)
    /\ IF cfg.clientId = None \/ cfg.clientId = Some("")
       THEN Respond(r, 400, "Client ID not configured")
       ELSE Respond(r, 302, "")
    /\ UNCHANGED <<disk, cfg, now, cur, listed>>

\* Variant: only the token record is cleared.
DisconnectTokensOnly(r) ==
    /\ Arrives(r)
    /\ disk' = [disk EXCEPT !.tokens = None]
    /\ Finish(r)
    /\ Respond(r, 200, "")
    /\ UNCHANGED <<cfg, now, cur, listed>>

\* POST /auth/disconnect
Disconnect(r) ==
    /\ Arrives(r)
    /\ disk' = [disk EXCEPT !.tokens = None, !.channel = None]
    /\ Finish(r)
    /\ Respond(r, 200, "")
    /\ UNCHANGED <<cfg, now, cur, listed>>

\* GET /api/videos
ListVideos(r) ==
    /\ Arrives(r)
    /\ listed' = disk.videos
    /\ Finish(r)
    /\ Respond(r, 200, "")
    /\ UNCHANGED <<disk, cfg, now, cur>>

\* DELETE /api/videos/:id
DeleteVideo(r, id) ==
    /\ Arrives(r)
    /\ disk' = [disk EXCEPT !.videos = RemoveVideo(disk.videos, id)]
    /\ Finish(r)
    /\ Respond(r, 200, "")
    /\ UNCHANGED <<cfg, now, cur, listed>>

-----------------------------------------------------------------------------
(* POST /api/generate *)

\* The route from the generated script on: load, insert, truncate, save, answer.
GenerateInsert(r, body, generated) ==
    /\ disk' = [disk EXCEPT
                   !.videos = InsertVideo(disk.videos, NewVideo(body, generated, now))]
    /\ Finish(r)
    /\ Respond(r, 200, "")

\* The request arrives: rejected without a topic; with an API key the generation
\* call is sent; without one the script is generated locally and the draft inserted.
Generate(r, body, hookDraw, titleDraw) ==
    /\ Arrives(r)
    /\ IF body.topic = <<>>
       THEN /\ Finish(r)
            /\ Respond(r, 400, "Topic required")
            /\ UNCHANGED disk
       ELSE IF cfg.claudeApiKey # None /\ cfg.claudeApiKey # Some("")
       THEN /\ reqs' = [reqs EXCEPT ![r] = [Blank("gen_api") EXCEPT !.body = body]]
            /\ UNCHANGED <<disk, resp>>
       ELSE GenerateInsert(r, body, generateScript(body.topic, None, hookDraw, titleDraw))
    /\ UNCHANGED <<cfg, now, cur, listed>>

\* The generation API answered.
GenerateAnswered(r, a, hookDraw, titleDraw) ==
    /\ Answered(r, "gen_api")
    /\ GenerateInsert(r, reqs[r].body,
                      generateScript(reqs[r].body.topic, Some(a), hookDraw, titleDraw))
    /\ UNCHANGED <<cfg, now, cur, started, listed>>

-----------------------------------------------------------------------------
(* GET /auth/callback *)

CallbackQueries == {[code |-> None, error |-> Some("access_denied")],
                    [code |-> None, error |-> None],
                    [code |-> Some("c0de"), error |-> None]}

\* The request arrives: answered at once on an error or a missing code, else the
\* code exchange is sent.
AuthCallback(r, q) ==
    /\ Arrives(r)
    /\ IF q.error # None
       THEN Finish(r) /\ Respond(r, 200, Val(q.error))
       ELSE IF q.code = None
       THEN Finish(r) /\ Respond(r, 200, "no_code")
       ELSE reqs' = [reqs EXCEPT ![r] = Blank("cb_exchange")] /\ UNCHANGED resp
    /\ UNCHANGED <<disk, cfg, now, cur, listed>>

\* db.tokens = { access_token, refresh_token, expiry: Date.now() + expires_in * 1000 }
NewTokens(a, t) ==
    [access_token |-> a.access_token,
     refresh_token |-> a.refresh_token,
     expiry |-> Some(t + a.expires_in * 1000)]

\* The provider answered the exchange: on success the document is loaded, the new
\* token record set in the copy, and the channel request sent.
CallbackExchanged(r, a) ==
    /\ Answered(r, "cb_exchange")
    /\ IF a.k = "reject"
       THEN Finish(r) /\ Respond(r, 500, a.error)
       ELSE IF a.k = "error"
       THEN Finish(r) /\ Respond(r, 200, a.error)
       ELSE /\ reqs' = [reqs EXCEPT ![r] =
                   [Blank("cb_channel") EXCEPT
                       !.db = [disk EXCEPT !.tokens = Some(NewTokens(a, now))]]]
            /\ UNCHANGED resp
    /\ UNCHANGED <<disk, cfg, now, cur, started, listed>>

\* Variant: a failed channel request ends the callback without the save.
CallbackChannelSaveOnSuccess(r, a) ==
    /\ Answered(r, "cb_channel")
    /\ disk' = IF a.k = "reject" THEN disk
               ELSE [reqs[r].db EXCEPT !.channel = getChannelInfo(a)]
    /\ Finish(r)
    /\ Respond(r, 200, "")
    /\ UNCHANGED <<cfg, now, cur, started, listed>>

\* The platform answered the channel request (a failure is caught): the copy is saved.
CallbackChannel(r, a) ==
    /\ Answered(r, "cb_channel")
    /\ disk' = IF a.k = "reject" THEN reqs[r].db
               ELSE [reqs[r].db EXCEPT !.channel = getChannelInfo(a)]
    /\ Finish(r)
    /\ Respond(r, 200, "")
    /\ UNCHANGED <<cfg, now, cur, started, listed>>

-----------------------------------------------------------------------------
(* POST /api/videos/:id/schedule *)

\* The answer of the route: scheduleVideoPost's result, or its error in the
\* handler's catch.
ScheduleRespond(r, outcome) ==
    IF outcome.k = "return" THEN Respond(r, 200, "") ELSE Respond(r, 500, outcome.val)

\* The request arrives: scheduleVideoPost loads the document and looks the draft up;
\* getValidToken loads the document again and either settles at once or sends the
\* refresh request.
Schedule(r, id) ==
    /\ Arrives(r)
    /\ LET db == disk
           outcome == getValidTokenBegin(disk, now)
       IN IF FindVideo(db.videos, id) = 0
          THEN /\ Finish(r)
               /\ Respond(r, 500, "Video not found")
               /\ UNCHANGED disk
          ELSE IF outcome.k = "refresh"
          THEN /\ reqs' = [reqs EXCEPT ![r] =
                      [Blank("sched_refresh") EXCEPT !.id = id, !.db = db]]
               /\ UNCHANGED <<disk, resp>>
          ELSE /\ disk' = scheduleSettle(db, id, outcome, now)
               /\ Finish(r)
               /\ ScheduleRespond(r, outcome)
    /\ UNCHANGED <<cfg, now, cur, listed>>

\* The provider answered the refresh: getValidToken saves its copy on success and
\* settles; scheduleVideoPost's continuation is queued.
ScheduleRefreshed(r, a) ==
    /\ Answered(r, "sched_refresh")
    /\ LET res == getValidTokenResume(reqs[r].db, a, now)
       IN /\ disk' = IF res.saved = None THEN disk ELSE Val(res.saved)
          /\ reqs' = [reqs EXCEPT ![r].pc = "sched_settle",
                                  ![r].got = [k |-> res.k, val |-> res.val]]
    /\ cur' = r
    /\ UNCHANGED <<cfg, now, started, resp, listed>>

\* scheduleVideoPost's continuation: it marks the draft in its own copy and saves it.
ScheduleSettle(r) ==
    /\ cur = r
    /\ reqs[r].pc = "sched_settle"
    /\ disk' = scheduleSettle(reqs[r].db, reqs[r].id, reqs[r].got, now)
    /\ Finish(r)
    /\ ScheduleRespond(r, reqs[r].got)
    /\ cur' = 0
    /\ UNCHANGED <<cfg, now, started, listed>>

-----------------------------------------------------------------------------
(* GET /api/channel *)

\* The request arrives: refused without a token record; else getValidToken returns
\* the stored token and the channel request is sent, or the refresh request is sent.
Channel(r) ==
    /\ Arrives(r)
    /\ LET db == disk
           outcome == getValidTokenBegin(disk, now)
       IN IF db.tokens = None
          THEN Finish(r) /\ Respond(r, 401, "Not connected")
          ELSE IF outcome.k = "refresh"
          THEN /\ reqs' = [reqs EXCEPT ![r] =
                      [Blank("ch_refresh") EXCEPT !.db = db]]
               /\ UNCHANGED resp
          ELSE /\ reqs' = [reqs EXCEPT ![r] =
                      [Blank("ch_fetch") EXCEPT !.db = db, !.got = outcome]]
               /\ UNCHANGED resp
    /\ UNCHANGED <<disk, cfg, now, cur, listed>>

\* The provider answered the refresh: on success getValidToken saves its copy and
\* the channel request is sent; on failure the route answers with the error.
ChannelRefreshed(r, a) ==
    /\ Answered(r, "ch_refresh")
    /\ LET res == getValidTokenResume(reqs[r].db, a, now)
       IN IF res.k = "throw"
          THEN /\ disk' = IF res.saved = None THEN disk ELSE Val(res.saved)
               /\ Finish(r)
               /\ Respond(r, 500, res.val)
          ELSE /\ disk' = IF res.saved = None THEN disk ELSE Val(res.saved)
               /\ reqs' = [reqs EXCEPT ![r].pc = "ch_fetch",
                                       ![r].got = [k |-> res.k, val |-> res.val]]
               /\ UNCHANGED resp
    /\ UNCHANGED <<cfg, now, cur, started, listed>>

\* The platform answered the channel request: the route sets the channel in its own
\* copy and saves it; a failure is answered with the error.
ChannelFetched(r, a) ==
    /\ Answered(r, "ch_fetch")
    /\ IF a.k = "reject"
       THEN /\ Respond(r, 500, "ECONNRESET")
            /\ UNCHANGED disk
       ELSE /\ disk' = [reqs[r].db EXCEPT !.channel = getChannelInfo(a)]
            /\ Respond(r, 200, "")
    /\ Finish(r)
    /\ UNCHANGED <<cfg, now, cur, started, listed>>

-----------------------------------------------------------------------------
(* The system *)

NoConfig == [clientId |-> None, clientSecret |-> None, claudeApiKey |-> None]

\* A draft generated before the start, at time t, from a text of the generation API.
OldDraft(t) ==
    NewVideo([topic |-> <<"X">>, tone |-> "Engaging", length |-> 60, scheduleFor |-> None],
             generateScript(<<"X">>,
                            Some([k |-> "text",
                                  text |-> Some(CHOOSE x \in Texts : x.title # None)]),
                            3, 0),
             t)

\* Token records a previous authorization may have left: one inside the refresh
\* buffer and one valid beyond it.
StartTokens ==
    {None} \cup
    {Some([access_token |-> "at1", refresh_token |-> "rt1", expiry |-> Some(120000 + d)]) :
        d \in {30000, 120000}}

\* Draft lists a previous run may have left: none, or one draft that is still a
\* draft, that failed while not authenticated, or that was scheduled.
StartVideos ==
    {<<>>,
     <<OldDraft(90000)>>,
     <<MarkError(OldDraft(90000), "Not authenticated")>>,
     <<MarkScheduled(OldDraft(90000), 100000)>>}

InitCommon ==
    /\ cfg = NoConfig
    /\ now \in StartTimes
    /\ reqs = [r \in Reqs |-> Blank("new")]
    /\ started = 0
    /\ cur = 0
    /\ resp = [status |-> 0, error |-> ""]
    /\ listed = <<>>

\* The server starts on the document a previous run left (none: the empty one).
Init ==
    /\ InitCommon
    /\ disk \in [videos : StartVideos,
                  tokens : StartTokens,
                  channel : {None}]

\* The server starts on a document whose draft list is nearly full.
InitStore ==
    /\ InitCommon
    /\ disk \in [videos : {[i \in 1..Prefill |-> OldDraft(90000 - i)]},
                  tokens : {t \in StartTokens : t # None /\ StillValid(Val(t), 120000)},
                  channel : {None}]

Next ==
    \/ \E d \in ClockSteps : Tick(d)
    \/ \E r \in Reqs : Status(r)
    \/ \E r \in Reqs, body \in SetupBodies : Setup(r, body)
    \/ \E r \in Reqs : AuthConnect(r)
    \/ \E r \in Reqs : Disconnect(r)
    \/ \E r \in Reqs : ListVideos(r)
    \/ \E r \in Reqs, id \in IdInputs : DeleteVideo(r, id)
    \/ \E r \in Reqs, body \in GenerateBodies, h \in HookDraws, t \in TitleDraws :
          Generate(r, body, h, t)
    \/ \E r \in Reqs, a \in ApiAnswers, h \in HookDraws, t \in TitleDraws :
          GenerateAnswered(r, a, h, t)
    \/ \E r \in Reqs, q \in CallbackQueries : AuthCallback(r, q)
    \/ \E r \in Reqs, a \in TokenAnswers : CallbackExchanged(r, a)
    \/ \E r \in Reqs, a \in ChannelAnswers : CallbackChannel(r, a)
    \/ \E r \in Reqs, id \in IdInputs : Schedule(r, id)
    \/ \E r \in Reqs, a \in TokenAnswers : ScheduleRefreshed(r, a)
    \/ \E r \in Reqs : ScheduleSettle(r)
    \/ \E r \in Reqs : Channel(r)
    \/ \E r \in Reqs, a \in TokenAnswers : ChannelRefreshed(r, a)
    \/ \E r \in Reqs, a \in ChannelAnswers : ChannelFetched(r, a)

Spec == Init /\ [][Next]_vars

SpecStore == InitStore /\ [][Next]_vars

-----------------------------------------------------------------------------
(* Properties *)

Expiry(tokens) == Val(Val(tokens).expiry)

\* The draft of the document that scheduleVideoPost finds for id.
Found(db, id) == db.videos[FindVideo(db.videos, id)]

Known(db, id) == \E i \in 1..Len(db.videos) : db.videos[i].id = id

(* C1: while now < expiry - 60 s, getValidToken returns the stored access_token,  *)
(* sends no refresh request and leaves the document as it is (a schedule request  *)
(* changes only its draft); from now >= expiry - 60 s on the refresh request is   *)
(* sent.                                                                          *)
C1_ValidTokenReused ==
    [][\A r \in Reqs :
        /\ (Channel(r) /\ disk.tokens # None) =>
              IF now < Expiry(disk.tokens) - 60000
              THEN /\ reqs'[r].pc = "ch_fetch"
                   /\ reqs'[r].got = [k |-> "return", val |-> Val(disk.tokens).access_token]
                   /\ disk' = disk
              ELSE reqs'[r].pc = "ch_refresh" /\ disk' = disk
        /\ \A id \in IdInputs :
              (Schedule(r, id) /\ Known(disk, id) /\ disk.tokens # None) =>
                 IF now < Expiry(disk.tokens) - 60000
                 THEN /\ reqs'[r].pc = "done"
                      /\ resp'.status = 200
                      /\ disk'.tokens = disk.tokens
                      /\ disk'.channel = disk.channel
                 ELSE reqs'[r].pc = "sched_refresh" /\ disk' = disk
      ]_vars

\* A channel request holds the stored token, returned inside the validity window.
C1_Witness ==
    \E r \in Reqs :
        /\ reqs[r].pc = "ch_fetch"
        /\ disk.tokens # None
        /\ now < Expiry(disk.tokens) - 60000
        /\ reqs[r].got = [k |-> "return", val |-> Val(disk.tokens).access_token]
        /\ reqs[r].db = disk

(* C2 as stated: a refresh the provider accepts, with whatever positive          *)
(* expires_in, stores an expiry strictly greater than the one of the record      *)
(* getValidToken read, and the refresh_token it read.                            *)
C2_AnyExpiresIn ==
    [][\A r \in Reqs, a \in TokenAnswers :
        ((ScheduleRefreshed(r, a) \/ ChannelRefreshed(r, a)) /\ a.k = "ok") =>
            /\ disk'.tokens # None
            /\ Expiry(disk'.tokens) > Expiry(reqs[r].db.tokens)
            /\ Val(disk'.tokens).refresh_token = Val(reqs[r].db.tokens).refresh_token
      ]_vars

(* C2, amended: a refresh the provider accepts with expires_in above 60 s (the   *)
(* refresh buffer) stores the expiry now + expires_in, strictly greater than the *)
(* expiry of the record getValidToken read, and the refresh_token it read.       *)
C2_ExpiryForward ==
    [][\A r \in Reqs, a \in TokenAnswers :
        ((ScheduleRefreshed(r, a) \/ ChannelRefreshed(r, a))
            /\ a.k = "ok" /\ a.expires_in * 1000 > 60000) =>
            /\ disk'.tokens # None
            /\ Expiry(disk'.tokens) = now + a.expires_in * 1000
            /\ Expiry(disk'.tokens) > Expiry(reqs[r].db.tokens)
            /\ Val(disk'.tokens).refresh_token = Val(reqs[r].db.tokens).refresh_token
            /\ Val(disk'.tokens).access_token = a.access_token
      ]_vars

\* A request is past an accepted refresh; the stored expiry moved forward.
C2_Witness ==
    \E r \in Reqs :
        /\ reqs[r].pc \in {"sched_settle", "ch_fetch"}
        /\ reqs[r].got.k = "return"
        /\ disk.tokens # None /\ reqs[r].db.tokens # None
        /\ Val(disk.tokens).access_token = reqs[r].got.val
        /\ Val(disk.tokens).access_token # Val(reqs[r].db.tokens).access_token
        /\ Expiry(disk.tokens) > Expiry(reqs[r].db.tokens)
        /\ Val(disk.tokens).refresh_token = Val(reqs[r].db.tokens).refresh_token

(* C3: when the provider answers the refresh with an error, getValidToken fails  *)
(* with "Token refresh failed: ..." and saves nothing; the schedule request that *)
(* called it then saves its copy, whose token record is the one read at the      *)
(* start of the call.                                                            *)
C3_FailedRefreshKeepsTokens ==
    [][\A r \in Reqs :
        /\ \A a \in TokenAnswers :
              a.k = "error" =>
                /\ ChannelRefreshed(r, a) =>
                      /\ disk' = disk
                      /\ reqs'[r].pc = "done"
                      /\ resp' = [status |-> 500,
                                  error |-> "Token refresh failed: " \o a.error]
                /\ ScheduleRefreshed(r, a) =>
                      /\ disk' = disk
                      /\ reqs'[r].got = [k |-> "throw",
                                         val |-> "Token refresh failed: " \o a.error]
        /\ (ScheduleSettle(r) /\ reqs[r].got.k = "throw") =>
              /\ disk'.tokens = reqs[r].db.tokens
              /\ resp' = [status |-> 500, error |-> reqs[r].got.val]
      ]_vars

\* A schedule request failed on a rejected refresh; the token record is still stored.
C3_Witness ==
    /\ resp = [status |-> 500, error |-> "Token refresh failed: invalid_grant"]
    /\ disk.tokens # None
    /\ \E i \in 1..Len(disk.videos) :
          disk.videos[i].error = Some("Token refresh failed: invalid_grant")

(* C4: with no token record, getValidToken fails with "Not authenticated": no    *)
(* refresh request is sent and the document keeps its (absent) token record and  *)
(* its channel; the schedule request that called it changes only its draft, and  *)
(* the channel route refuses before calling it.                                  *)
C4_NotAuthenticated ==
    [][\A r \in Reqs :
        /\ \A id \in IdInputs :
              (Schedule(r, id) /\ Known(disk, id) /\ disk.tokens = None) =>
                 /\ reqs'[r].pc = "done"
                 /\ resp' = [status |-> 500, error |-> "Not authenticated"]
                 /\ disk'.tokens = None
                 /\ disk'.channel = disk.channel
                 /\ Len(disk'.videos) = Len(disk.videos)
                 /\ \A i \in 1..Len(disk.videos) :
                       i # FindVideo(disk.videos, id) => disk'.videos[i] = disk.videos[i]
        /\ (Channel(r) /\ disk.tokens = None) =>
              /\ reqs'[r].pc = "done"
              /\ resp' = [status |-> 401, error |-> "Not connected"]
              /\ disk' = disk
      ]_vars

\* A schedule request failed for want of a token record.
C4_Witness ==
    /\ resp = [status |-> 500, error |-> "Not authenticated"]
    /\ disk.tokens = None
    /\ \A r \in Reqs : reqs[r].pc \in {"new", "done"}

(* C5: scheduling an id no draft has fails with "Video not found" and leaves the *)
(* whole document unchanged; the request ends there, with no token lookup and no *)
(* refresh request.                                                              *)
C5_UnknownIdNoChange ==
    [][\A r \in Reqs, id \in IdInputs :
        (Schedule(r, id) /\ ~Known(disk, id)) =>
            /\ disk' = disk
            /\ reqs'[r].pc = "done"
            /\ resp' = [status |-> 500, error |-> "Video not found"]
      ]_vars

\* A schedule request for an unknown id was refused while drafts and a token exist.
C5_Witness ==
    /\ resp = [status |-> 500, error |-> "Video not found"]
    /\ Len(disk.videos) > 0
    /\ disk.tokens # None
    /\ \A i \in 1..Len(disk.videos) : disk.videos[i].status = "draft"

(* C6 as stated: scheduling an existing draft with no token record leaves it in  *)
(* status error with a non-empty message and fails; once a code exchange has     *)
(* stored a token record, scheduling the same id ends with the draft scheduled.  *)
C6_RetryAlwaysSchedules ==
    [][\A r \in Reqs :
        /\ \A id \in IdInputs :
              (Schedule(r, id) /\ Known(disk, id) /\ disk.tokens = None) =>
                 /\ Found(disk', id).status = "error"
                 /\ Found(disk', id).error # None
                 /\ Val(Found(disk', id).error) # ""
                 /\ resp' = [status |-> 500, error |-> Val(Found(disk', id).error)]
        /\ \A id \in IdInputs :
              (Schedule(r, id) /\ Known(disk, id) /\ disk.tokens # None
                  /\ Found(disk, id).status = "error"
                  /\ Found(disk, id).error = Some("Not authenticated")
                  /\ Val(disk.tokens).refresh_token \in RefreshTokens
                  /\ reqs'[r].pc = "done") =>
                 Found(disk', id).status = "scheduled"
        /\ (ScheduleSettle(r)
                /\ Found(reqs[r].db, reqs[r].id).status = "error"
                /\ Found(reqs[r].db, reqs[r].id).error = Some("Not authenticated")
                /\ Val(reqs[r].db.tokens).refresh_token \in RefreshTokens) =>
              Found(disk', reqs[r].id).status = "scheduled"
      ]_vars

(* C6, amended: scheduling an existing draft with no token record leaves it in   *)
(* status error with a non-empty message and fails; once a token record is       *)
(* stored again, scheduling the same id ends with the draft scheduled whenever   *)
(* getValidToken yields a token: the stored one inside its validity window, or   *)
(* an accepted refresh.                                                          *)
C6_RetrySchedulesWithToken ==
    [][\A r \in Reqs :
        /\ \A id \in IdInputs :
              (Schedule(r, id) /\ Known(disk, id) /\ disk.tokens = None) =>
                 /\ Found(disk', id).status = "error"
                 /\ Found(disk', id).error # None
                 /\ Val(Found(disk', id).error) # ""
                 /\ resp' = [status |-> 500, error |-> Val(Found(disk', id).error)]
        /\ \A id \in IdInputs :
              (Schedule(r, id) /\ Known(disk, id) /\ disk.tokens # None
                  /\ Found(disk, id).status = "error"
                  /\ now < Expiry(disk.tokens) - 60000) =>
                 /\ Found(disk', id).status = "scheduled"
                 /\ resp'.status = 200
        /\ (ScheduleSettle(r)
                /\ Found(reqs[r].db, reqs[r].id).status = "error"
                /\ reqs[r].got.k = "return") =>
              /\ Found(disk', reqs[r].id).status = "scheduled"
              /\ resp'.status = 200
      ]_vars

\* A draft that failed while not authenticated is scheduled by the retry that
\* followed a code exchange.
C6_Witness ==
    /\ resp.status = 200
    /\ disk.tokens # None
    /\ Val(disk.tokens).refresh_token \in RefreshTokens
    /\ \E i \in 1..Len(disk.videos) :
          /\ disk.videos[i].status = "scheduled"
          /\ disk.videos[i].error = Some("Not authenticated")
          /\ disk.videos[i].scheduledAt = Some(now)

(* C7: the draft list never holds more than 50 entries; an insert into a list of *)
(* 50 puts the new draft first, keeps the 49 newest behind it in their order and *)
(* drops exactly the last one; an insert into a shorter list drops nothing.      *)
C7_AtMostFifty ==
    /\ Len(disk.videos) <= 50
    /\ [][/\ Len(disk'.videos) <= 50
          /\ \A r \in Reqs :
                ((\/ \E b \in GenerateBodies, h \in HookDraws, t \in TitleDraws :
                        Generate(r, b, h, t) /\ b.topic # <<>> /\ reqs'[r].pc = "done"
                  \/ \E a \in ApiAnswers, h \in HookDraws, t \in TitleDraws :
                        GenerateAnswered(r, a, h, t))) =>
                   /\ disk'.videos[1].status = "draft"
                   /\ disk'.videos[1].createdAt = now
                   /\ IF Len(disk.videos) = 50
                      THEN /\ Len(disk'.videos) = 50
                           /\ \A k \in 1..49 : disk'.videos[k + 1] = disk.videos[k]
                      ELSE /\ Len(disk'.videos) = Len(disk.videos) + 1
                           /\ \A k \in 1..Len(disk.videos) :
                                 disk'.videos[k + 1] = disk.videos[k]
         ]_vars

\* Two drafts were inserted into a list that held 49: the list holds 50, the two
\* new ones first, and the oldest stored draft is gone.
C7_Witness ==
    /\ Len(disk.videos) = 50
    /\ disk.videos[1].createdAt >= 120000
    /\ disk.videos[2].createdAt >= 120000
    /\ \A k \in 3..50 : disk.videos[k].createdAt < 120000
    /\ \A k \in 1..50 : disk.videos[k].id # ToString(90000 - 49)

(* C8: a draft whose status is scheduled keeps that status when schedulePost is  *)
(* invoked on it again, whatever the outcome of the token acquisition.           *)
C8_ScheduledIsTerminal ==
    [][\A r \in Reqs :
        /\ \A id \in IdInputs :
              (Schedule(r, id) /\ Known(disk, id)
                  /\ Found(disk, id).status = "scheduled") =>
                 Found(disk', id).status = "scheduled"
        /\ (ScheduleSettle(r) /\ Found(reqs[r].db, reqs[r].id).status = "scheduled") =>
              Found(disk', reqs[r].id).status = "scheduled"
      ]_vars

(* C9: no two drafts of the stored list have the same id.                        *)
C9_UniqueIds ==
    \A i, j \in 1..Len(disk.videos) :
        i # j => disk.videos[i].id # disk.videos[j].id

(* C10: when a schedule or channel request during which getValidToken refreshed  *)
(* the token has completed, the stored token record holds the access_token that  *)
(* getValidToken returned.                                                       *)
C10_RefreshedTokenStored ==
    [][\A r \in Reqs :
        /\ (ScheduleSettle(r) /\ reqs[r].got.k = "return") =>
              /\ disk'.tokens # None
              /\ Val(disk'.tokens).access_token = reqs[r].got.val
        /\ \A a \in ChannelAnswers :
              (ChannelFetched(r, a) /\ a.k # "reject"
                  /\ reqs[r].got.val # Val(reqs[r].db.tokens).access_token) =>
                 /\ disk'.tokens # None
                 /\ Val(disk'.tokens).access_token = reqs[r].got.val
      ]_vars

\* Request r resumes after an external call and saves a copy of the document that
\* it loaded before the call.
ResumesAndSaves(r) ==
    \/ \E a \in TokenAnswers :
          (ScheduleRefreshed(r, a) \/ ChannelRefreshed(r, a)) /\ a.k = "ok"
    \/ ScheduleSettle(r)
    \/ \E a \in ChannelAnswers : ChannelFetched(r, a) /\ a.k # "reject"
    \/ \E a \in ChannelAnswers : CallbackChannel(r, a)

(* C11: no update is lost: when a schedule, channel or callback request that was *)
(* suspended on an external call resumes and saves, every draft stored at that   *)
(* moment (such as one a generate request inserted meanwhile) is still stored.   *)
C11_NoLostDraft ==
    [][\A r \in Reqs :
        ResumesAndSaves(r) =>
            \A i \in 1..Len(disk.videos) : Known(disk', disk.videos[i].id)
      ]_vars

(* C12: a schedule or channel request, and the token refresh inside it, never    *)
(* changes the stored refresh_token: a token record stored before any of their   *)
(* steps is stored after it with the same refresh_token.                         *)
C12_RefreshTokenKept ==
    [][\A r \in Reqs :
        (\/ \E id \in IdInputs : Schedule(r, id)
         \/ Channel(r)
         \/ \E a \in TokenAnswers : ScheduleRefreshed(r, a) \/ ChannelRefreshed(r, a)
         \/ ScheduleSettle(r)
         \/ \E a \in ChannelAnswers : ChannelFetched(r, a)) =>
            (disk.tokens # None =>
                /\ disk'.tokens # None
                /\ Val(disk'.tokens).refresh_token = Val(disk.tokens).refresh_token)
      ]_vars

(* C13: an accepted code exchange stores a new token record built from the       *)
(* provider's answer (access_token, refresh_token, expiry = now + expires_in),   *)
(* replacing any stored one, whether the channel request then succeeds or fails; *)
(* the callback answers 200 either way. A rejected exchange leaves the stored    *)
(* document unchanged.                                                           *)
C13_ExchangeStoresTokens ==
    [][\A r \in Reqs :
        /\ \A a \in TokenAnswers :
              CallbackExchanged(r, a) =>
                /\ disk' = disk
                /\ IF a.k = "ok"
                   THEN /\ reqs'[r].pc = "cb_channel"
                        /\ reqs'[r].db.tokens =
                              Some([access_token |-> a.access_token,
                                    refresh_token |-> a.refresh_token,
                                    expiry |-> Some(now + a.expires_in * 1000)])
                   ELSE /\ reqs'[r].pc = "done"
                        /\ resp'.error = a.error
        /\ \A a \in ChannelAnswers :
              CallbackChannel(r, a) =>
                /\ disk'.tokens = reqs[r].db.tokens
                /\ disk'.channel = IF a.k = "reject" THEN reqs[r].db.channel
                                   ELSE getChannelInfo(a)
                /\ reqs'[r].pc = "done"
                /\ resp' = [status |-> 200, error |-> ""]
      ]_vars

\* A callback has answered 200 and the stored token record is the exchanged one,
\* with no channel info stored.
C13_Witness ==
    /\ disk.tokens # None
    /\ Val(disk.tokens).refresh_token \in RefreshTokens
    /\ Val(disk.tokens).access_token \in AccessTokens
    /\ disk.channel = None
    /\ resp = [status |-> 200, error |-> ""]
    /\ \A r \in Reqs : reqs[r].pc \in {"new", "done"}

(* C14: disconnect clears the token record and the channel info from any stored  *)
(* state and leaves the draft list as it is; on a document that has neither, it  *)
(* changes nothing, so disconnecting twice is the same as once.                  *)
C14_DisconnectClears ==
    [][\A r \in Reqs :
        Disconnect(r) =>
            /\ disk'.tokens = None
            /\ disk'.channel = None
            /\ disk'.videos = disk.videos
            /\ resp' = [status |-> 200, error |-> ""]
            /\ (disk.tokens = None /\ disk.channel = None => disk' = disk)
      ]_vars

\* A disconnect has answered and cleared a document whose token record a still
\* suspended request had loaded.
C14_Witness ==
    /\ disk.tokens = None
    /\ disk.channel = None
    /\ resp = [status |-> 200, error |-> ""]
    /\ \E r \in Reqs : /\ reqs[r].pc \in {"sched_refresh", "ch_refresh", "ch_fetch"}
                       /\ reqs[r].db.tokens # None

(* C15: at the HTTP surface a schedule request for an unknown id and one made    *)
(* without a stored token record are answered with a 4xx status, one whose       *)
(* refresh is rejected with a 5xx status, and a generate request with an empty   *)
(* topic with a 4xx status.                                                      *)
C15_StatusClasses ==
    [][\A r \in Reqs :
        /\ \A id \in IdInputs :
              (Schedule(r, id) /\ (~Known(disk, id) \/ disk.tokens = None)) =>
                  /\ reqs'[r].pc = "done"
                  /\ resp'.status \in 400..499
        /\ (ScheduleSettle(r) /\ reqs[r].got.k = "throw") =>
                  resp'.status \in 500..599
        /\ \A body \in GenerateBodies, h \in HookDraws, t \in TitleDraws :
              (Generate(r, body, h, t) /\ body.topic = <<>>) =>
                  /\ reqs'[r].pc = "done"
                  /\ resp'.status \in 400..499
      ]_vars

\* The generated part of a stored draft.
Artifact(video) ==
    [title |-> video.title, hook |-> video.hook,
     script |-> video.script, hashtags |-> video.hashtags]

(* C16: generate does not fail outward: a request with a non-empty topic is      *)
(* answered 200 with a new draft stored first in the list, whatever the          *)
(* generation API does. Without an API key, and when the API call fails, answers *)
(* something unparsable or answers without text, the draft's title, hook, script *)
(* and hashtags are the local generator's; when the API answers with a text they *)
(* are the parsed text's.                                                        *)
C16_GenerateAlwaysInserts ==
    [][\A r \in Reqs, h \in HookDraws, t \in TitleDraws :
        /\ \A body \in GenerateBodies :
              (Generate(r, body, h, t) /\ body.topic # <<>>) =>
                  IF cfg.claudeApiKey \in {None, Some("")}
                  THEN /\ reqs'[r].pc = "done"
                       /\ resp' = [status |-> 200, error |-> ""]
                       /\ Len(disk'.videos) >= 1
                       /\ disk'.videos[1].topic = Join(body.topic, " ")
                       /\ Artifact(disk'.videos[1]) = localGenerate(body.topic, h, t)
                  ELSE /\ reqs'[r].pc = "gen_api"
                       /\ disk' = disk
        /\ \A a \in ApiAnswers :
              GenerateAnswered(r, a, h, t) =>
                  /\ reqs'[r].pc = "done"
                  /\ resp' = [status |-> 200, error |-> ""]
                  /\ Len(disk'.videos) >= 1
                  /\ disk'.videos[1].topic = Join(reqs[r].body.topic, " ")
                  /\ Artifact(disk'.videos[1]) =
                        IF a.k = "text"
                        THEN parseGeneratedScript(Val(a.text), reqs[r].body.topic)
                        ELSE localGenerate(reqs[r].body.topic, h, t)
      ]_vars

\* With an API key configured, a generate request has been answered 200 and the
\* newest draft, created in this run, carries the local generator's script.
C16_Witness ==
    /\ cfg.claudeApiKey \notin {None, Some("")}
    /\ resp = [status |-> 200, error |-> ""]
    /\ Len(disk.videos) >= 1
    /\ disk.videos[1].createdAt >= 120000
    /\ \E topic \in Topics, h \in HookDraws, t \in TitleDraws :
          Artifact(disk.videos[1]) = localGenerate(topic, h, t)

\* Request r stores a new draft in this step.
Inserts(r) ==
    \/ \E body \in GenerateBodies, h \in HookDraws, t \in TitleDraws :
          /\ Generate(r, body, h, t)
          /\ body.topic # <<>>
          /\ cfg.claudeApiKey \in {None, Some("")}
    \/ \E a \in ApiAnswers, h \in HookDraws, t \in TitleDraws : GenerateAnswered(r, a, h, t)

\* Request r, scheduling id, obtains a token and answers in this step.
SchedulesOk(r, id) ==
    \/ Schedule(r, id) /\ reqs'[r].pc = "done" /\ resp'.status = 200
    \/ ScheduleSettle(r) /\ reqs[r].id = id /\ reqs[r].got.k = "return"

(* C17: after a generate the new draft is first in the stored list, with status  *)
(* draft, and the list route answers with the stored list in its order; after a  *)
(* successful schedule the draft's status is scheduled, its scheduledAt is the   *)
(* time of the call, and the description of its publish metadata is its script,  *)
(* a blank line, its hashtags, a blank line and the tag #Shorts.                 *)
C17_DraftThenScheduled ==
    [][\A r \in Reqs :
        /\ Inserts(r) =>
              /\ Len(disk'.videos) >= 1
              /\ disk'.videos[1].id = ToString(now)
              /\ disk'.videos[1].status = "draft"
              /\ disk'.videos[1].scheduledAt = None
        /\ ListVideos(r) => listed' = disk.videos /\ disk' = disk
        /\ \A id \in IdInputs :
              SchedulesOk(r, id) =>
                  /\ Known(disk', id)
                  /\ LET v == Found(disk', id)
                     IN /\ v.status = "scheduled"
                        /\ v.scheduledAt = Some(now)
                        /\ v.youtubeMetadata # None
                        /\ Val(v.youtubeMetadata).description =
                              v.script \o "\n\n" \o v.hashtags \o "\n\n#Shorts"
      ]_vars

\* A draft generated in this run is first in the list, and the one after it was
\* scheduled in this run.
C17_Witness ==
    /\ Len(disk.videos) >= 2
    /\ disk.videos[1].status = "draft"
    /\ disk.videos[1].createdAt >= 120000
    /\ disk.videos[2].status = "scheduled"
    /\ disk.videos[2].scheduledAt # None
    /\ Val(disk.videos[2].scheduledAt) >= 120000
    /\ Val(disk.videos[2].youtubeMetadata).description =
          disk.videos[2].script \o "\n\n" \o disk.videos[2].hashtags \o "\n\n#Shorts"

(* C18: a deleted draft stays deleted: a request that resumes after an external  *)
(* call and saves brings no id into the stored list that is not in it at that    *)
(* moment (only a generate stores a new draft).                                  *)
C18_DeletedStaysDeleted ==
    [][\A r \in Reqs :
        ResumesAndSaves(r) =>
            \A i \in 1..Len(disk'.videos) : Known(disk, disk'.videos[i].id)
      ]_vars

(* C19: a disconnect stays in effect: while the stored token record and channel  *)
(* info are absent, no step of a schedule or channel request, and of the token   *)
(* refresh inside it, stores a token record or channel info again.               *)
C19_DisconnectStays ==
    [][\A r \in Reqs :
        (\/ \E id \in IdInputs : Schedule(r, id)
         \/ Channel(r)
         \/ \E a \in TokenAnswers : ScheduleRefreshed(r, a) \/ ChannelRefreshed(r, a)
         \/ ScheduleSettle(r)
         \/ \E a \in ChannelAnswers : ChannelFetched(r, a)) =>
            ((disk.tokens = None /\ disk.channel = None) =>
                (disk'.tokens = None /\ disk'.channel = None))
      ]_vars

(* C20: the status fields of every stored draft are consistent: a scheduled      *)
(* draft has scheduledAt and publish metadata and no error message (also when it *)
(* failed before and was scheduled by a retry); an error draft has a non-empty   *)
(* error message.                                                                *)
C20_StatusFieldsConsistent ==
    \A i \in 1..Len(disk.videos) :
        LET v == disk.videos[i]
        IN /\ v.status = "scheduled" =>
                /\ v.scheduledAt # None
                /\ v.youtubeMetadata # None
                /\ v.error = None
           /\ v.status = "error" => (v.error # None /\ Val(v.error) # "")

=============================================================================
